---------------------------- MODULE Spec2Model ----------------------------
(***************************************************************************)
(* A model of portfolio_updater.py: the orchestrator PortfolioUpdater.run  *)
(* inside temporary_directories, the README metadata extraction, the JSON  *)
(* catalog update, the three-command publisher and main()'s exit code.     *)
(*                                                                         *)
(* Text is modelled as a sequence of characters (one-character strings),   *)
(* the catalog file as a sequence of JSON tokens, so that the regular      *)
(* expressions, json.load and json.dump are computed and not assumed.      *)
(***************************************************************************)
EXTENDS Integers, Sequences, FiniteSets, TLC

VARIABLES
    pc,             \* position of the process inside main() / run()
    runNo,          \* number of the current invocation of the tool
    projectUrl,     \* self.project_repo_url of the current invocation
    remoteCatalog,  \* the catalog file on the API repository's remote
    dirExists,      \* [dir |-> whether the directory exists on disk]
    localCatalog,   \* temp_api_repo/<json_file_name>
    localReadme,    \* temp_project_repo/README.md
    projectData,    \* result of _parse_readme
    updated,        \* result of _update_json_file together with what it read
    cmds,           \* the git commands executed in this invocation, in order
    committed,      \* content of the commit created by `git commit`
    exc,            \* the exception propagating out of run(), "none" if none
    terminal,       \* the terminal state of the run's body
    exitCode,       \* the process exit code, -1 while running
    stderr,         \* what was printed to the error stream, in order
    stdout          \* what was printed to the output stream, in order

vars == <<pc, runNo, projectUrl, remoteCatalog, dirExists, localCatalog,
          localReadme, projectData, updated, cmds, committed, exc, terminal,
          exitCode, stderr, stdout>>

-----------------------------------------------------------------------------
(* Bounds of the model.                                                     *)

MaxRuns == 2
MaxBadges == 3
MaxCatalogLen == 2

-----------------------------------------------------------------------------
(* Characters and strings.                                                  *)

API_CLONE_DIR == "temp_api_repo"
PROJECT_CLONE_DIR == "temp_project_repo"
Dirs == <<API_CLONE_DIR, PROJECT_CLONE_DIR>>

NL == "\n"

\* Python's str whitespace, restricted to the characters the model uses.
IsSpace(c) == c \in {" ", "\t", "\n", "\r"}

\* Unicode code points of the characters that occur in badge labels.
CodePoint(c) ==
    CASE c = "G" -> 71  [] c = "I" -> 73  [] c = "O" -> 79  [] c = "P" -> 80
      [] c = "a" -> 97  [] c = "f" -> 102 [] c = "h" -> 104 [] c = "l" -> 108
      [] c = "m" -> 109 [] c = "n" -> 110 [] c = "o" -> 111 [] c = "p" -> 112
      [] c = "r" -> 114 [] c = "t" -> 116 [] c = "y" -> 121

Min(S) == CHOOSE x \in S : \A y \in S : x <= y

\* s[p..] begins with lit.
HasPrefixAt(s, p, lit) ==
    /\ p >= 1
    /\ p + Len(lit) - 1 <= Len(s)
    /\ \A i \in 1..Len(lit) : s[p + i - 1] = lit[i]

\* str.startswith
StartsWith(s, lit) == HasPrefixAt(s, 1, lit)

\* Python's comparison of str: lexicographic by code point.
StrLess(a, b) ==
    \E k \in 1..(Len(b)) :
        /\ \A i \in 1..(k - 1) : i <= Len(a) /\ a[i] = b[i]
        /\ k - 1 <= Len(a)
        /\ \/ k = Len(a) + 1
           \/ k <= Len(a) /\ CodePoint(a[k]) < CodePoint(b[k])

\* str.strip()
Strip(s) ==
    LET keep == {i \in 1..Len(s) : ~IsSpace(s[i])}
    IN  IF keep = {} THEN <<>>
        ELSE SubSeq(s, Min(keep), CHOOSE i \in keep : \A j \in keep : j <= i)

\* str.splitlines(): the lines of s, without a trailing empty line.
RECURSIVE SplitLines(_)
SplitLines(s) ==
    IF s = <<>> THEN <<>>
    ELSE LET brk == {i \in 1..Len(s) : s[i] = NL}
         IN  IF brk = {} THEN <<s>>
             ELSE <<SubSeq(s, 1, Min(brk) - 1)>>
                    \o SplitLines(SubSeq(s, Min(brk) + 1, Len(s)))

\* ' '.join(lines)
RECURSIVE JoinSpace(_)
JoinSpace(lines) ==
    IF lines = <<>> THEN <<>>
    ELSE IF Len(lines) = 1 THEN lines[1]
    ELSE lines[1] \o <<" ">> \o JoinSpace(Tail(lines))

\* sorted(S) for a set of strings.
RECURSIVE Sorted(_)
Sorted(S) ==
    IF S = {} THEN <<>>
    ELSE LET m == CHOOSE x \in S : \A y \in S \ {x} : StrLess(x, y)
         IN  <<m>> \o Sorted(S \ {m})

Range(f) == {f[i] : i \in DOMAIN f}

-----------------------------------------------------------------------------
(* _parse_readme: the three patterns.                                       *)

Lit_Hashes == <<"#", "#">>
\* The four characters between (?: and \s in the source of the pattern.
Lit_Emoji == <<"U+00F0", "U+0178", "U+201C", "U+2013">>
Lit_About == <<"A","b","o","u","t"," ","T","h","e"," ","P","r","o","j","e","c","t">>
Lit_Rule == <<"-", "-", "-">>
Lit_Badge == <<"b","a","d","g","e","/">>
Lit_Platform == <<"P","l","a","t","f","o","r","m">>

\* re.search(r'^#\s(.+)', content, re.MULTILINE): the start of the leftmost
\* match, 0 if there is none.
NameMatchAt(c) ==
    LET starts == {p \in 1..Len(c) :
                      /\ p = 1 \/ c[p - 1] = NL
                      /\ c[p] = "#"
                      /\ p + 2 <= Len(c)
                      /\ IsSpace(c[p + 1])
                      /\ c[p + 2] # NL}
    IN  IF starts = {} THEN 0 ELSE Min(starts)

\* group(1) of the name match starting at p: the rest of the line.
NameGroup(c, p) ==
    LET brk == {i \in (p + 2)..Len(c) : c[i] = NL}
    IN  SubSeq(c, p + 2, IF brk = {} THEN Len(c) ELSE Min(brk) - 1)

\* The position following r'##\s(?:<emoji>\s)?About The Project\n\n' matched
\* at p, 0 if it does not match there.
HeadingEnd(c, p) ==
    LET tail == Lit_About \o <<NL, NL>>
        e == p + 3 + Len(Lit_Emoji)
    IN  IF ~(HasPrefixAt(c, p, Lit_Hashes) /\ p + 2 <= Len(c) /\ IsSpace(c[p + 2]))
        THEN 0
        ELSE IF /\ HasPrefixAt(c, p + 3, Lit_Emoji)
                /\ e <= Len(c) /\ IsSpace(c[e])
                /\ HasPrefixAt(c, e + 1, tail)
        THEN e + 1 + Len(tail)
        ELSE IF HasPrefixAt(c, p + 3, tail)
        THEN p + 3 + Len(tail)
        ELSE 0

\* The positions at which r'\n\n---' matches from s on.
RuleAt(c, s) == {q \in s..Len(c) : HasPrefixAt(c, q, <<NL, NL>> \o Lit_Rule)}

\* re.search(r'##\s(?:<emoji>\s)?About The Project\n\n(.*?)\n\n---', content,
\* re.DOTALL): the start of the leftmost match, 0 if there is none.
DescMatchAt(c) ==
    LET starts == {p \in 1..Len(c) :
                      HeadingEnd(c, p) > 0 /\ RuleAt(c, HeadingEnd(c, p)) # {}}
    IN  IF starts = {} THEN 0 ELSE Min(starts)

\* group(1) of the description match starting at p: the shortest text up to
\* the rule.
DescGroup(c, p) ==
    LET s == HeadingEnd(c, p)
    IN  SubSeq(c, s, Min(RuleAt(c, s)) - 1)

\* The end of the line that holds position p (the position of its newline,
\* or Len(c) + 1).
LineEnd(c, p) ==
    LET brk == {i \in p..Len(c) : c[i] = NL}
    IN  IF brk = {} THEN Len(c) + 1 ELSE Min(brk)

\* re.findall(r'badge/.*?-(.*?)-', content) from position pos on: the
\* captured groups of the successive non-overlapping matches.
RECURSIVE FindBadges(_, _)
FindBadges(c, pos) ==
    LET hyph(p) == {i \in (p + Len(Lit_Badge))..(LineEnd(c, p) - 1) : c[i] = "-"}
        starts == {p \in pos..Len(c) :
                      HasPrefixAt(c, p, Lit_Badge) /\ Cardinality(hyph(p)) >= 2}
    IN  IF starts = {} THEN <<>>
        ELSE LET p == Min(starts)
                 a == Min(hyph(p))
                 b == Min(hyph(p) \ {a})
             IN  <<SubSeq(c, a + 1, b - 1)>> \o FindBadges(c, b + 1)

\* The variant without the startswith('Platform') filter.
TechnologiesMutNoFilter(tech_matches) == Sorted(Range(tech_matches))

\* sorted(list(set(tech for tech in tech_matches
\*                 if not tech.startswith('Platform'))))

Technologies(tech_matches) ==
    Sorted({t \in Range(tech_matches) : ~StartsWith(t, Lit_Platform)})

\* None, as a record of the same shape as the dictionary returned on success.
NoData == [ok |-> FALSE, name |-> <<>>, description |-> <<>>,
           technologies |-> <<>>]

\* A file on disk: missing, or present with its content.
NoFile == [exists |-> FALSE, content |-> <<>>]
File(content) == [exists |-> TRUE, content |-> content]

\* The variant that fails only when the name pattern does not match.
ParseReadmeMutNameOnly(readme) ==
    IF ~readme.exists \/ NameMatchAt(readme.content) = 0 THEN NoData
    ELSE [ok |-> TRUE,
          name |-> Strip(NameGroup(readme.content, NameMatchAt(readme.content))),
          description |-> <<>>,
          technologies |-> Technologies(FindBadges(readme.content, 1))]

\* _parse_readme on the README of the project checkout.
ParseReadme(readme) ==
    IF ~readme.exists THEN NoData
    ELSE LET content == readme.content
             name_match == NameMatchAt(content)
             desc_match == DescMatchAt(content)
             tech_matches == FindBadges(content, 1)
         IN  IF name_match = 0 \/ desc_match = 0 THEN NoData
             ELSE [ok |-> TRUE,
                   name |-> Strip(NameGroup(content, name_match)),
                   description |->
                       JoinSpace(SplitLines(Strip(DescGroup(content, desc_match)))),
                   technologies |-> Technologies(tech_matches)]

-----------------------------------------------------------------------------
(* The READMEs a project repository may hold.                               *)

Label_Go == <<"G","o">>
Label_Python == <<"P","y","t","h","o","n">>
Label_python == <<"p","y","t","h","o","n">>
Label_Plat == <<"P","l","a","t">>
Label_Platform == Lit_Platform
Label_PlatformIO == Lit_Platform \o <<"I","O">>
Labels == {Label_Go, Label_Python, Label_python, Label_Plat, Label_Platform,
           Label_PlatformIO}

\* A badge image reference that encodes label between two hyphens.
BadgeRef(label) == Lit_Badge \o <<"x", "-">> \o label \o <<"-", "b">>

RECURSIVE BadgeRefs(_)
BadgeRefs(labels) ==
    IF labels = <<>> THEN <<>>
    ELSE BadgeRef(Head(labels)) \o <<" ">> \o BadgeRefs(Tail(labels))

SeqsUpTo(S, n) == UNION {[1..k -> S] : k \in 0..n}

Text_Title == <<"#", " ", "D", "e", "m", "o", " ">>
Text_HashOnly == <<"#", NL, "D", "e", "m", "o">>
Text_Sub == <<"#", "#", " ", "D", "e", "m", "o">>
Text_About == Lit_Hashes \o <<" ">> \o Lit_About
Text_AboutEmoji == Lit_Hashes \o <<" ">> \o Lit_Emoji \o <<" ">> \o Lit_About
\* The heading with the open-book character itself, which the pattern does
\* not hold.
Text_AboutBook == Lit_Hashes \o <<" ", "U+1F4D6", " ">> \o Lit_About
Text_Body == <<" ", "A", " ", "d", "e", "m", "o", ".", NL, "M", "o", "r", "e", ".">>

\* title, blank line, about heading, blank line, body, blank line, rule, badges
Readme(title, about, rule, labels) ==
    File(title \o <<NL, NL>> \o about \o <<NL, NL>> \o Text_Body \o <<NL, NL>>
         \o rule \o <<NL>> \o BadgeRefs(labels) \o <<NL>>)

\* The READMEs the orchestrator is run against.
ProjectReadmes ==
    {NoFile,
     Readme(Text_Title, Text_About, Lit_Rule, <<Label_python, Label_Go>>),
     Readme(Text_HashOnly, Text_AboutEmoji, Lit_Rule, <<>>),
     Readme(Text_Sub, Text_About, Lit_Rule, <<Label_Go>>),
     Readme(Text_Title, Text_Sub, Lit_Rule, <<Label_Go, Label_Platform>>),
     Readme(Text_Title, Text_About, <<"-", "-">>, <<Label_Go>>),
     Readme(Text_Title, Text_AboutBook, Lit_Rule, <<Label_Go>>)}

\* The READMEs the extraction alone is run against: those, and every list of
\* at most MaxBadges badge references under either form of the heading.
AllReadmes ==
    ProjectReadmes
    \cup {Readme(Text_Title, a, Lit_Rule, l) :
             a \in {Text_About, Text_AboutEmoji}, l \in SeqsUpTo(Labels, MaxBadges)}

-----------------------------------------------------------------------------
(* The catalog file: JSON text as a sequence of tokens.                     *)

Tok(t) == [t |-> t, v |-> <<>>]
Tok_LB == Tok("[")
Tok_RB == Tok("]")
Tok_WS == Tok("whitespace")
Tok_Junk == Tok("junk")
\* A byte sequence that is not valid UTF-8.
Tok_BadByte == Tok("badbyte")
\* A JSON object (with the comma that follows it, if any).
Tok_Obj(p) == [t |-> "object", v |-> <<p>>]

\* json.dump(projects, file, indent=4, ensure_ascii=False): every element on
\* a line of its own; "[]" for the empty list.
RECURSIVE DumpElements(_)
DumpElements(projects) ==
    IF projects = <<>> THEN <<>>
    ELSE <<Tok_WS, Tok_Obj(Head(projects))>> \o DumpElements(Tail(projects))

JsonDump(projects) ==
    IF projects = <<>> THEN <<Tok_LB, Tok_RB>>
    ELSE <<Tok_LB>> \o DumpElements(projects) \o <<Tok_WS, Tok_RB>>

\* json.load(file): file.read() decodes the whole content as UTF-8, then the
\* text is parsed: an array of objects, whitespace allowed between tokens,
\* nothing but whitespace after the closing bracket.
JsonLoad(text) ==
    LET toks == SelectSeq(text, LAMBDA k : k # Tok_WS)
        n == Len(toks)
    IN  IF \E i \in 1..Len(text) : text[i] = Tok_BadByte
        THEN [error |-> "UnicodeDecodeError", value |-> <<>>]
        ELSE IF /\ n >= 2
                /\ toks[1] = Tok_LB
                /\ toks[n] = Tok_RB
                /\ \A i \in 2..(n - 1) : toks[i].t = "object"
        THEN [error |-> "none", value |-> [i \in 1..(n - 2) |-> toks[i + 1].v[1]]]
        ELSE [error |-> "JSONDecodeError", value |-> <<>>]

\* file.seek(0); file.write(text): overwrite from the start of the file.
WriteAtStart(old, text) == text \o SubSeq(old, Len(text) + 1, Len(old))

\* file.truncate() at the position reached after writing text.
Truncate(content, pos) == SubSeq(content, 1, pos)

\* p.get('id', 0)
GetId(p) == IF "id" \in DOMAIN p THEN p.id ELSE 0

\* The variant that numbers by len(projects).
MaxIdMutCount(projects) == Len(projects)

\* max((p.get('id', 0) for p in projects), default=0)

MaxId(projects) ==
    IF projects = <<>> THEN 0
    ELSE CHOOSE m \in {GetId(projects[i]) : i \in 1..Len(projects)} :
             \A i \in 1..Len(projects) : GetId(projects[i]) <= m

\* The variant that looks at the first record only.
IsDuplicateMutFirstOnly(projects, url) ==
    projects # <<>> /\ projects[1].github_url = url

\* any(p['github_url'] == self.project_repo_url for p in projects)

IsDuplicate(projects, url) ==
    \E i \in 1..Len(projects) : projects[i].github_url = url

NewProjectEntry(projects, url, data) ==
    [id |-> MaxId(projects) + 1,
     name |-> data.name,
     description |-> data.description,
     technologies |-> data.technologies,
     github_url |-> url,
     live_url |-> <<>>]

\* The variant without file.truncate().
RewriteMutNoTruncate(old, projects) == WriteAtStart(old, JsonDump(projects))

\* What _update_json_file leaves in an open file that held old.

Rewrite(old, projects) ==
    Truncate(WriteAtStart(old, JsonDump(projects)), Len(JsonDump(projects)))

\* _update_json_file: the returned pair (applied, name), the file it leaves
\* and the exception it lets through ("none" if none).
UpdateResult(applied, name, file, error) ==
    [applied |-> applied, name |-> name, file |-> file, error |-> error]

UpdateJsonFile(file, url, new_project_data) ==
    IF ~file.exists
    THEN UpdateResult(FALSE, <<>>, file, "none")      \* FileNotFoundError, caught
    ELSE LET loaded == JsonLoad(file.content)
             projects == loaded.value
         IN  IF loaded.error = "JSONDecodeError"
             THEN UpdateResult(FALSE, <<>>, file, "none")
             ELSE IF loaded.error # "none"
             THEN UpdateResult(FALSE, <<>>, file, loaded.error)
             ELSE IF IsDuplicate(projects, url)
             THEN UpdateResult(FALSE, <<>>, file, "none")
             ELSE UpdateResult(
                      TRUE, new_project_data.name,
                      File(Rewrite(file.content,
                                   Append(projects,
                                          NewProjectEntry(projects, url,
                                                          new_project_data)))),
                      "none")

-----------------------------------------------------------------------------
(* The catalogs the remote of the API repository may hold.                  *)

Project(id, url) ==
    [id |-> id, name |-> <<"O", "l", "d">>, description |-> <<"O", "l", "d", ".">>,
     technologies |-> <<Label_Go>>, github_url |-> url, live_url |-> <<>>]

\* A record written by hand without an id.
ProjectNoId(url) ==
    [name |-> <<"O", "l", "d">>, description |-> <<"O", "l", "d", ".">>,
     technologies |-> <<>>, github_url |-> url, live_url |-> <<>>]

Urls == {"A", "B"}

ExistingProjects ==
    {Project(1, "A"), Project(3, "C"), Project(-2, "C"), ProjectNoId("C")}

\* The same array written by hand: blank lines first, the elements on one line.
RECURSIVE CompactElements(_)
CompactElements(projects) ==
    IF projects = <<>> THEN <<>>
    ELSE <<Tok_Obj(Head(projects))>> \o CompactElements(Tail(projects))

HandWritten(projects) ==
    <<Tok_WS, Tok_WS, Tok_WS, Tok_WS, Tok_WS, Tok_WS, Tok_LB>>
        \o CompactElements(projects)
        \o <<Tok_WS, Tok_RB>>

InitialCatalogs ==
    {NoFile, File(<<>>), File(<<Tok_LB, Tok_Junk, Tok_RB>>),
     File(<<Tok_LB, Tok_RB, Tok_BadByte>>)}
    \cup {File(JsonDump(ps)) : ps \in SeqsUpTo(ExistingProjects, MaxCatalogLen)}
    \cup {File(HandWritten(ps)) : ps \in SeqsUpTo(ExistingProjects, MaxCatalogLen)}

-----------------------------------------------------------------------------
(* temporary_directories and handle_remove_readonly.                        *)

\* What the removal of a directory tree can meet.
RemovalOutcomes == {"removed", "readonly", "readonly_stuck", "other_error"}

\* handle_remove_readonly(func, path, exc_info): TRUE when it returns, FALSE
\* when an exception leaves it. A PermissionError makes it chmod the path and
\* call func again, which fails again on "readonly_stuck"; any other error
\* is re-raised.
HandleRemoveReadonly(outcome) ==
    IF outcome \in {"readonly", "readonly_stuck"}
    THEN outcome = "readonly"
    ELSE FALSE

\* shutil.rmtree(directory, onerror=handle_remove_readonly): TRUE when the
\* tree is gone, FALSE when an exception leaves rmtree.
RmtreeWithHandler(outcome) ==
    outcome = "removed" \/ HandleRemoveReadonly(outcome)

\* shutil.rmtree(clone_dir) in _clone_repo, without a handler.
RmtreePlain(outcome) == outcome = "removed"

-----------------------------------------------------------------------------
(* The process.                                                             *)

NoUpdate == [applied |-> FALSE, name |-> <<>>, before |-> NoFile, done |-> FALSE]

Fresh(url) ==
    /\ pc = "clone_api"
    /\ projectUrl = url
    /\ localCatalog = NoFile
    /\ localReadme = NoFile
    /\ projectData = NoData
    /\ updated = NoUpdate
    /\ cmds = <<>>
    /\ committed = NoFile
    /\ exc = "none"
    /\ terminal = "none"
    /\ exitCode = -1
    /\ stderr = <<>>
    /\ stdout = <<>>

Init ==
    /\ runNo = 1
    /\ remoteCatalog \in InitialCatalogs
    /\ dirExists = [d \in Range(Dirs) |-> FALSE]
    /\ \E url \in Urls : Fresh(url)

\* An exception leaves the body of run(): the finally block runs next.
Raise(e, state) ==
    /\ exc' = e
    /\ terminal' = state
    /\ pc' = "cleanup_api"

\* One execution of _run_command and what it returned.
Command(name, ok) == [name |-> name, ok |-> ok]

\* _run_command prints the failed command to the error stream.
CommandFailed(command) == Append(stderr, <<"Error executing command", command>>)

\* self._clone_repo(self.api_repo_url, API_CLONE_DIR), lines 126-127.
CloneApi ==
    /\ pc = "clone_api"
    /\ UNCHANGED <<runNo, projectUrl, remoteCatalog, localReadme, projectData,
                   updated, committed, exitCode, stdout>>
    /\ \E outcome \in RemovalOutcomes, cloned \in BOOLEAN, left \in BOOLEAN :
         IF dirExists[API_CLONE_DIR] /\ ~RmtreePlain(outcome)
         THEN /\ Raise("OSError", "Crashed")
              /\ UNCHANGED <<dirExists, localCatalog, cmds, stderr>>
         ELSE /\ cmds' = Append(cmds, Command("clone_api", cloned))
              /\ IF cloned
                 THEN /\ dirExists' = [dirExists EXCEPT ![API_CLONE_DIR] = TRUE]
                      /\ localCatalog' = remoteCatalog
                      /\ pc' = "clone_project"
                      /\ UNCHANGED <<exc, terminal, stderr>>
                 ELSE /\ dirExists' = [dirExists EXCEPT ![API_CLONE_DIR] = left]
                      /\ stderr' = CommandFailed("clone")
                      /\ Raise("RuntimeError", "FailedCloneApi")
                      /\ localCatalog' = NoFile

\* self._clone_repo(self.project_repo_url, PROJECT_CLONE_DIR), lines 129-130.
CloneProject ==
    /\ pc = "clone_project"
    /\ UNCHANGED <<runNo, projectUrl, remoteCatalog, localCatalog, projectData,
                   updated, committed, exitCode, stdout>>
    /\ \E outcome \in RemovalOutcomes, cloned \in BOOLEAN, left \in BOOLEAN,
          readme \in ProjectReadmes :
         IF dirExists[PROJECT_CLONE_DIR] /\ ~RmtreePlain(outcome)
         THEN /\ Raise("OSError", "Crashed")
              /\ UNCHANGED <<dirExists, localReadme, cmds, stderr>>
         ELSE /\ cmds' = Append(cmds, Command("clone_project", cloned))
              /\ IF cloned
                 THEN /\ dirExists' = [dirExists EXCEPT ![PROJECT_CLONE_DIR] = TRUE]
                      /\ localReadme' = readme
                      /\ pc' = "parse"
                      /\ UNCHANGED <<exc, terminal, stderr>>
                 ELSE /\ dirExists' = [dirExists EXCEPT ![PROJECT_CLONE_DIR] = left]
                      /\ stderr' = CommandFailed("clone")
                      /\ Raise("RuntimeError", "FailedCloneProject")
                      /\ localReadme' = NoFile

\* project_data = self._parse_readme(), lines 132-134.
Parse ==
    /\ pc = "parse"
    /\ projectData' = ParseReadme(localReadme)
    /\ IF ~projectData'.ok
       THEN Raise("ValueError", "FailedParse")
       ELSE pc' = "update" /\ UNCHANGED <<exc, terminal>>
    /\ UNCHANGED <<runNo, projectUrl, remoteCatalog, dirExists, localCatalog,
                   localReadme, updated, cmds, committed, exitCode, stderr, stdout>>

\* The variant of the update step without `if not success: return`.
UpdateCatalogMutAlwaysPublish ==
    /\ pc = "update"
    /\ LET r == UpdateJsonFile(localCatalog, projectUrl, projectData)
       IN  /\ updated' = [applied |-> r.applied, name |-> r.name,
                           before |-> localCatalog, done |-> TRUE]
           /\ localCatalog' = r.file
           /\ pc' = "git_add"
           /\ UNCHANGED <<exc, terminal>>
    /\ UNCHANGED <<runNo, projectUrl, remoteCatalog, dirExists, localReadme,
                   projectData, cmds, committed, exitCode, stderr, stdout>>

\* success, project_name = self._update_json_file(project_data), lines 136-138.
UpdateCatalog ==
    /\ pc = "update"
    /\ LET r == UpdateJsonFile(localCatalog, projectUrl, projectData)
       IN  /\ updated' = [applied |-> r.applied, name |-> r.name,
                           before |-> localCatalog, done |-> TRUE]
           /\ localCatalog' = r.file
           /\ IF r.error # "none"
              THEN Raise(r.error, "Crashed")
              ELSE IF ~r.applied
              THEN /\ terminal' = "Skipped"
                   /\ pc' = "cleanup_api"
                   /\ UNCHANGED exc
              ELSE /\ pc' = "git_add"
                   /\ UNCHANGED <<exc, terminal>>
    /\ UNCHANGED <<runNo, projectUrl, remoteCatalog, dirExists, localReadme,
                   projectData, cmds, committed, exitCode, stderr, stdout>>

\* The variant that returns False only for a failed push.
AfterGitMutNoShortCircuit(step, ok) ==
    CASE step = "git_add" -> "git_commit"
      [] step = "git_commit" -> "git_push"
      [] step = "git_push" -> IF ok THEN "pushed" ELSE "failed"

\* _git_commit_and_push, lines 112-122: where the publisher goes after the
\* command of a step returned ok; "failed" is `return False`, "pushed" is
\* `return True`.
AfterGit(step, ok) ==
    IF ~ok THEN "failed"
    ELSE CASE step = "git_add" -> "git_commit"
           [] step = "git_commit" -> "git_push"
           [] step = "git_push" -> "pushed"

\* One command of the publisher, and run()'s lines 140-141 once it returned.
GitStep(step) ==
    /\ pc = step
    /\ \E ok \in BOOLEAN :
         /\ cmds' = Append(cmds, Command(step, ok))
         /\ stderr' = IF ok THEN stderr ELSE CommandFailed(step)
         /\ committed' = IF step = "git_commit" /\ ok THEN localCatalog
                          ELSE committed
         /\ remoteCatalog' = IF step = "git_push" /\ ok THEN committed
                              ELSE remoteCatalog
         /\ LET next == AfterGit(step, ok)
            IN  CASE next = "failed" -> Raise("RuntimeError", "FailedPublish")
                  [] next = "pushed" -> /\ terminal' = "Done"
                                        /\ pc' = "cleanup_api"
                                        /\ UNCHANGED exc
                  [] OTHER -> pc' = next /\ UNCHANGED <<exc, terminal>>
    /\ UNCHANGED <<runNo, projectUrl, dirExists, localCatalog, localReadme,
                   projectData, updated, exitCode, stdout>>

GitAdd == pc = "git_add" /\ GitStep("git_add")
GitCommit == pc = "git_commit" /\ GitStep("git_commit")
GitPush == pc = "git_push" /\ GitStep("git_push")

\* One iteration of the loop of temporary_directories' finally block,
\* lines 21-23: an exception that leaves rmtree leaves the loop as well and
\* replaces the exception that was propagating.
Cleanup(step, directory, next) ==
    /\ pc = step
    /\ \E outcome \in RemovalOutcomes :
         IF ~dirExists[directory]
         THEN pc' = next /\ UNCHANGED <<dirExists, localCatalog, localReadme, exc>>
         ELSE IF RmtreeWithHandler(outcome)
         THEN /\ dirExists' = [dirExists EXCEPT ![directory] = FALSE]
              /\ localCatalog' = IF directory = API_CLONE_DIR THEN NoFile
                                  ELSE localCatalog
              /\ localReadme' = IF directory = PROJECT_CLONE_DIR THEN NoFile
                                 ELSE localReadme
              /\ pc' = next
              /\ UNCHANGED exc
         ELSE /\ exc' = "OSError"
              /\ pc' = "exit"
              /\ UNCHANGED <<dirExists, localCatalog, localReadme>>
    /\ UNCHANGED <<runNo, projectUrl, remoteCatalog, projectData, updated, cmds,
                   committed, terminal, exitCode, stderr, stdout>>

CleanupApi ==
    pc = "cleanup_api" /\ Cleanup("cleanup_api", Dirs[1], "cleanup_project")
CleanupProject ==
    pc = "cleanup_project" /\ Cleanup("cleanup_project", Dirs[2], "exit")

\* main(), lines 166-176: the success message, or the handler of RuntimeError
\* and ValueError (UnicodeDecodeError is a ValueError), or the interpreter's
\* traceback for any other exception.
Exit ==
    /\ pc = "exit"
    /\ pc' = "exited"
    /\ IF exc = "none"
       THEN /\ stdout' = Append(stdout, "Portfolio update process completed successfully!")
            /\ exitCode' = 0
            /\ UNCHANGED stderr
       ELSE IF exc \in {"RuntimeError", "ValueError", "UnicodeDecodeError"}
       THEN /\ stderr' = Append(stderr, <<"An error occurred that stopped the execution", exc>>)
            /\ exitCode' = 1
            /\ UNCHANGED stdout
       ELSE /\ stderr' = Append(stderr, <<"Traceback", exc>>)
            /\ exitCode' = 1
            /\ UNCHANGED stdout
    /\ UNCHANGED <<runNo, projectUrl, remoteCatalog, dirExists, localCatalog,
                   localReadme, projectData, updated, cmds, committed, exc,
                   terminal>>

\* The tool is invoked again, on the disk and the remote the last run left.
NextRun ==
    /\ pc = "exited"
    /\ runNo < MaxRuns
    /\ runNo' = runNo + 1
    /\ projectUrl' \in Urls
    /\ pc' = "clone_api"
    /\ localCatalog' = IF dirExists[API_CLONE_DIR] THEN localCatalog ELSE NoFile
    /\ localReadme' = IF dirExists[PROJECT_CLONE_DIR] THEN localReadme ELSE NoFile
    /\ projectData' = NoData
    /\ updated' = NoUpdate
    /\ cmds' = <<>>
    /\ committed' = NoFile
    /\ exc' = "none"
    /\ terminal' = "none"
    /\ exitCode' = -1
    /\ stderr' = <<>>
    /\ stdout' = <<>>
    /\ UNCHANGED <<remoteCatalog, dirExists>>

Next ==
    \/ CloneApi
    \/ CloneProject
    \/ Parse
    \/ UpdateCatalog
    \/ GitAdd
    \/ GitCommit
    \/ GitPush
    \/ CleanupApi
    \/ CleanupProject
    \/ Exit
    \/ NextRun

Spec == Init /\ [][Next]_vars

\* The extraction alone: _parse_readme applied to every README of AllReadmes
\* in a checkout that both clones have produced.
InitParse ==
    /\ runNo = 1
    /\ remoteCatalog = File(JsonDump(<<>>))
    /\ dirExists = [d \in Range(Dirs) |-> TRUE]
    /\ pc = "parse"
    /\ projectUrl = "B"
    /\ localCatalog = remoteCatalog
    /\ localReadme \in AllReadmes
    /\ projectData = NoData
    /\ updated = NoUpdate
    /\ cmds = <<Command("clone_api", TRUE), Command("clone_project", TRUE)>>
    /\ committed = NoFile
    /\ exc = "none"
    /\ terminal = "none"
    /\ exitCode = -1
    /\ stderr = <<>>
    /\ stdout = <<>>

NextParse == Parse

SpecParse == InitParse /\ [][NextParse]_vars

-----------------------------------------------------------------------------
(* Vocabulary of the properties.                                            *)

PublisherSteps == <<"git_add", "git_commit", "git_push">>
FatalStates == {"FailedCloneApi", "FailedCloneProject", "FailedParse", "FailedPublish"}

\* The positions of the run at which the catalog file rewritten (or left) by
\* _update_json_file is still on disk as the update left it.
AfterUpdate ==
    updated.done /\ pc \in {"git_add", "git_commit", "git_push", "cleanup_api"}

\* The publisher's commands executed so far, in order.
GitCmds == SelectSeq(cmds, LAMBDA c : c.name \in Range(PublisherSteps))

IsPrefix(a, b) == Len(a) <= Len(b) /\ \A i \in 1..Len(a) : a[i] = b[i]

Names(log) == [i \in 1..Len(log) |-> log[i].name]

\* The number of records of a catalog whose github_url is url.
CountUrl(projects, url) ==
    Cardinality({i \in 1..Len(projects) : projects[i].github_url = url})

Unparsable(file) == ~file.exists \/ JsonLoad(file.content).error # "none"

-----------------------------------------------------------------------------
(* C1: whatever terminal state the run reaches and whatever the removal of  *)
(* a directory meets, neither temp_api_repo nor temp_project_repo exists    *)
(* once the process has exited.                                             *)
Cex_C1 ==
    pc = "exited" => \A d \in Range(Dirs) : ~dirExists[d]

(* C5: the process exits with code 0 exactly when the run ended in Done or  *)
(* Skipped, and with code 1 and a diagnostic on the error stream after      *)
(* every fatal failure.                                                     *)
Cex_C5 ==
    pc = "exited" =>
        /\ exitCode = 0 <=> terminal \in {"Done", "Skipped"}
        /\ terminal \in FatalStates => exitCode = 1 /\ stderr # <<>>

(* C6: when the catalog file is missing or is not parsable JSON, the update *)
(* returns applied = false, leaves the file as it was and lets no exception *)
(* through; the run then executes no further step and reports success.      *)
Cex_C6 ==
    updated.done /\ Unparsable(updated.before) =>
        /\ ~updated.applied
        /\ terminal = "Skipped"
        /\ AfterUpdate => localCatalog = updated.before /\ exc = "none"
        /\ GitCmds = <<>>
        /\ pc = "exited" => exitCode = 0 /\ stdout # <<>>

-----------------------------------------------------------------------------
(* C2: idempotence of the catalog update. Applied to a catalog with no      *)
(* record for the project URL, the update appends one; the catalog then has *)
(* exactly one record for that URL, and a second application to it returns  *)
(* applied = false and leaves the file as it is. An update that finds a     *)
(* record for the URL (the second run of the tool) is that second           *)
(* application: it returns false and the file is unchanged.                 *)
Thm_C2 ==
    AfterUpdate /\ ~Unparsable(updated.before) =>
        LET before == JsonLoad(updated.before.content).value
            again == UpdateJsonFile(localCatalog, projectUrl, projectData)
        IN  IF CountUrl(before, projectUrl) = 0
            THEN /\ updated.applied
                 /\ ~Unparsable(localCatalog)
                 /\ CountUrl(JsonLoad(localCatalog.content).value, projectUrl) = 1
                 /\ ~again.applied
                 /\ again.error = "none"
                 /\ again.file = localCatalog
            ELSE /\ ~updated.applied
                 /\ localCatalog = updated.before

\* The second run of the tool for a project that its first run has added:
\* the update is a no-op on a catalog that holds the record once.
Wit_C2 ==
    /\ runNo = 2
    /\ AfterUpdate
    /\ ~updated.applied
    /\ localCatalog = updated.before
    /\ ~Unparsable(localCatalog)
    /\ LET projects == JsonLoad(localCatalog.content).value
       IN  /\ CountUrl(projects, projectUrl) = 1
           /\ projects[Len(projects)].github_url = projectUrl
           /\ projects[Len(projects)].name = <<"D", "e", "m", "o">>

(* C3: whenever the update appends a record, its id is 1 for an empty       *)
(* catalog and one plus the maximum id of the existing records for a        *)
(* non-empty catalog (of records that carry an id), and it is strictly      *)
(* greater than every existing id.                                          *)
Thm_C3 ==
    AfterUpdate /\ updated.applied =>
        LET before == JsonLoad(updated.before.content).value
            after == JsonLoad(localCatalog.content).value
            new == after[Len(after)]
            ids == {i \in 1..Len(before) : "id" \in DOMAIN before[i]}
        IN  /\ "id" \in DOMAIN new
            /\ before = <<>> => new.id = 1
            /\ before # <<>> /\ ids = 1..Len(before) =>
                   /\ \E i \in ids : new.id = before[i].id + 1
                   /\ \A i \in ids : before[i].id + 1 <= new.id
            /\ \A i \in ids : before[i].id < new.id

\* A record was appended to a catalog whose greatest id is not its length.
Wit_C3 ==
    /\ AfterUpdate
    /\ updated.applied
    /\ LET before == JsonLoad(updated.before.content).value
           after == JsonLoad(localCatalog.content).value
       IN  /\ Len(before) = 2
           /\ before[1] = Project(3, "C")
           /\ before[2] = Project(-2, "C")
           /\ after[3].id = 4

(* C4: after an applied update the written catalog is the previous catalog  *)
(* followed by exactly one new record: every record that was there is still *)
(* there, unmodified and at its position, and the length grew by one.       *)
Thm_C4 ==
    AfterUpdate /\ updated.applied =>
        /\ ~Unparsable(localCatalog)
        /\ LET before == JsonLoad(updated.before.content).value
               after == JsonLoad(localCatalog.content).value
           IN  /\ Len(after) = Len(before) + 1
               /\ \A i \in 1..Len(before) : after[i] = before[i]
               /\ after[Len(after)].github_url = projectUrl

\* A record was appended to a hand-written catalog of two different records,
\* whose text was longer than the text written back.
Wit_C4 ==
    /\ AfterUpdate
    /\ updated.applied
    /\ updated.before = File(HandWritten(<<ProjectNoId("C"), Project(1, "A")>>))
    /\ Len(localCatalog.content) < Len(updated.before.content)
    /\ Len(JsonLoad(localCatalog.content).value) = 3

(* C7: when the README of the project checkout is absent, or has no match   *)
(* of the title heading pattern, or no match of the "About The Project"     *)
(* block pattern, _parse_readme reports failure whatever badges it found,   *)
(* the run ends in the fatal state of the extraction, and the catalog file  *)
(* is not modified in that run: the update never runs, no publisher command *)
(* is executed and the checkout's catalog is the one that was cloned.       *)
LacksHeading(readme) ==
    \/ ~readme.exists
    \/ NameMatchAt(readme.content) = 0
    \/ DescMatchAt(readme.content) = 0

\* _parse_readme has run and the README it read is still on disk.
Parsed ==
    /\ terminal = "FailedParse" \/ projectData.ok
    /\ dirExists[PROJECT_CLONE_DIR]
    /\ pc # "exited"

Thm_C8 ==
    /\ IsPrefix(Names(GitCmds), PublisherSteps)
    /\ \A i \in 1..(Len(GitCmds) - 1) : GitCmds[i].ok
    /\ terminal = "Done" =>
           Len(GitCmds) = 3 /\ \A i \in 1..3 : GitCmds[i].ok
    /\ terminal = "FailedPublish" =>
           GitCmds # <<>> /\ ~GitCmds[Len(GitCmds)].ok
    /\ GitCmds # <<>> /\ pc \notin Range(PublisherSteps) =>
           terminal \in {"Done", "FailedPublish"}
    /\ GitCmds # <<>> /\ ~GitCmds[Len(GitCmds)].ok => terminal = "FailedPublish"

\* The commit failed after a successful stage: push was not attempted and
\* the publisher reported failure.
Wit_C8 ==
    /\ terminal = "FailedPublish"
    /\ GitCmds = <<Command("git_add", TRUE), Command("git_commit", FALSE)>>
    /\ pc = "exited"

(* C10: within a run each step begins only if every earlier step succeeded, *)
(* the publisher's commands are executed only in a run whose catalog update *)
(* appended a record, and in a run that ends Skipped or fails before        *)
(* publishing no stage, commit or push is executed and the remote catalog   *)
(* is left as it was.                                                       *)
StepOrder ==
    /\ IsPrefix(Names(cmds), <<"clone_api", "clone_project">> \o PublisherSteps)
    /\ \A i \in 1..(Len(cmds) - 1) : cmds[i].ok
    /\ projectData.ok \/ terminal = "FailedParse" =>
           Len(cmds) >= 2 /\ cmds[1].ok /\ cmds[2].ok
    /\ updated.done => projectData.ok
    /\ GitCmds # <<>> => updated.done /\ updated.applied
    /\ terminal \in {"Skipped", "Crashed", "FailedCloneApi", "FailedCloneProject",
                      "FailedParse"} => GitCmds = <<>>

RemoteChangesOnlyByPush ==
    remoteCatalog' # remoteCatalog =>
        /\ pc = "git_push"
        /\ updated.applied
        /\ terminal' = "Done"
        /\ remoteCatalog' = localCatalog

Thm_C10 == [](StepOrder) /\ [][RemoteChangesOnlyByPush]_vars

\* A run that was skipped because the project is in the catalog has exited
\* having executed the two clones only.
Wit_C10 ==
    /\ pc = "exited"
    /\ terminal = "Skipped"
    /\ updated.done
    /\ CountUrl(JsonLoad(updated.before.content).value, projectUrl) > 0
    /\ cmds = <<Command("clone_api", TRUE), Command("clone_project", TRUE)>>

(* C9: the technologies produced by _parse_readme are exactly the distinct  *)
(* captured labels that do not begin with "Platform" (labels that differ    *)
(* only in case stay distinct), without repeats, in ascending               *)
(* lexicographic order.                                                     *)
BeginsWithPlatform(label) ==
    Len(label) >= Len(Lit_Platform)
        /\ SubSeq(label, 1, Len(Lit_Platform)) = Lit_Platform

Thm_C9 ==
    projectData.ok /\ dirExists[PROJECT_CLONE_DIR] /\ pc # "exited" =>
        LET labels == FindBadges(localReadme.content, 1)
            tech == projectData.technologies
        IN  /\ Range(tech) = {l \in Range(labels) : ~BeginsWithPlatform(l)}
            /\ \A i, j \in 1..Len(tech) : i < j => tech[i] # tech[j]
            /\ \A i, j \in 1..Len(tech) : i < j => StrLess(tech[i], tech[j])
            /\ {Label_Python, Label_python} \subseteq Range(labels) =>
                   {Label_Python, Label_python} \subseteq Range(tech)

\* Three badges were captured out of order, one of them a Platform label and
\* two that differ only in case.
Wit_C9 ==
    /\ projectData.ok
    /\ localReadme.exists
    /\ FindBadges(localReadme.content, 1) = <<Label_python, Label_PlatformIO, Label_Python>>
    /\ projectData.technologies = <<Label_Python, Label_python>>

=============================================================================
